---------------------------- MODULE Spec2Model ----------------------------
(***************************************************************************)
(* Model of go/query.go: main builds a Cosmos DB container client, then    *)
(* runs readItem and queryItem, each wrapped by timeFuncExecution.         *)
(* The store (azcosmos) is an external collaborator: every call to it      *)
(* returns one of the results its signature allows, chosen by the          *)
(* environment.  trace records, in program order, the store calls, the     *)
(* lines written and the begin/return of the wrapped functions.            *)
(***************************************************************************)
EXTENDS Integers, Sequences, FiniteSets, TLC

VARIABLES pc, env, partitionKeyString, handles, pk, trace,
          readResp, pager, fetched, exitCode

vars == <<pc, env, partitionKeyString, handles, pk, trace,
          readResp, pager, fetched, exitCode>>

(* Bounds *)
MaxPages == 2
MaxItems == 2

(* Values the environment and the store may supply *)
Ids == {"bar", "baz"}
EnvValues == {"", "tenant/a"}

(* Program constants *)
DefaultPartitionKey == "cosmos/default"
StoreIdParam == "cosmos/default"
TargetId == "bar"
StatusOK == 200
StatusOther == StatusOK + 1
NotExited == -1

MsgCred == "Failed to create Cosmos DB credential"
MsgClient == "Failed to create Cosmos DB client"
MsgContainer == "Failed to get container client"
MsgQuery == "Failed to query items"
MsgRead == "Failed to read item"
MsgUnmarshal == "Failed to unmarshal item"
MsgTook == "Function took"
LineRead == "[READ] Item ID: "
LineQuery == "[QUERY] Item ID: "

(* The query text, as the conditions of its WHERE clause *)
query == <<[field |-> "id", param |-> "@id"],
           [field |-> "store_id", param |-> "@store_id"]>>

(* Raw JSON payloads: a document carrying an id, and bytes json.Unmarshal *)
(* rejects.                                                                *)
RawItems == [kind : {"doc"}, id : Ids] \cup {[kind |-> "malformed", id |-> ""]}

EmptyBody == [kind |-> "malformed", id |-> ""]

(* json.Unmarshal(raw, &read_item) with read_item := Document{}: an error *)
(* (ID stays ""), or the document's id decoded into ID                     *)
Unmarshal(raw) ==
    IF raw.kind = "malformed" THEN [err |-> TRUE, ID |-> ""]
    ELSE [err |-> FALSE, ID |-> raw.id]

SeqsUpTo(S, n) == UNION {[1..k -> S] : k \in 0..n}

Pages == SeqsUpTo(RawItems, MaxItems)

(* Results of containerClient.ReadItem *)
NoResp == [called |-> FALSE, err |-> FALSE, status |-> 0, value |-> EmptyBody]
ReadResponses ==
    {[called |-> TRUE, err |-> TRUE, status |-> 0, value |-> EmptyBody]}
      \cup [called : {TRUE}, err : {FALSE}, status : {StatusOK}, value : RawItems]
      \cup {[called |-> TRUE, err |-> FALSE, status |-> StatusOther, value |-> EmptyBody]}

(* Results of pager.NextPage *)
PageResponses ==
    {[err |-> TRUE, items |-> <<>>, more |-> FALSE]}
      \cup [err : {FALSE}, items : Pages, more : BOOLEAN]

(* Events of the trace, all of one shape *)
Ev(t, name, id, pkv, q, params, n) ==
    [t |-> t, name |-> name, id |-> id, pk |-> pkv, query |-> q, params |-> params, n |-> n]
Out(name, id, n) == Ev("out", name, id, <<>>, <<>>, <<>>, n)
Call(name, id, pkv, q, params, n) == Ev("call", name, id, pkv, q, params, n)
Begin(f) == Ev("begin", f, "", <<>>, <<>>, <<>>, 0)
Return(f) == Ev("return", f, "", <<>>, <<>>, <<>>, 0)

(* os.LookupEnv with the fallback of main *)
LookupEnvEmptyIsUnset(e) == IF e.set /\ e.value # "" THEN e.value ELSE DefaultPartitionKey
LookupEnvOrDefault(e) == IF ~e.set THEN DefaultPartitionKey ELSE e.value

(* azcosmos.NewPartitionKeyString: a partition key of one string component *)
NewPartitionKeyString(s) == <<s>>

(* The QueryParameters queryItem builds *)
queryParamsFromPk(id) ==
    <<[Name |-> "@id", Value |-> id], [Name |-> "@store_id", Value |-> partitionKeyString]>>
queryParams(id) ==
    <<[Name |-> "@id", Value |-> id], [Name |-> "@store_id", Value |-> StoreIdParam]>>

(* log.Fatalf: write the message, then os.Exit(1) *)
Fatalf(msg, pre) ==
    /\ trace' = trace \o pre \o <<Out(msg, "", 0)>>
    /\ exitCode' = 1
    /\ pc' = "exited"

Init ==
    /\ pc = "main"
    /\ env \in {[set |-> FALSE, value |-> ""]} \cup [set : {TRUE}, value : EnvValues]
    /\ partitionKeyString = ""
    /\ handles = [cred |-> "nil", client |-> "nil", container |-> "nil"]
    /\ pk = <<>>
    /\ trace = <<>>
    /\ readResp = NoResp
    /\ pager = [created |-> FALSE, more |-> FALSE]
    /\ fetched = <<>>
    /\ exitCode = NotExited

(* main, lines 27-35 *)
LookupEnv ==
    /\ pc = "main"
    /\ partitionKeyString' = LookupEnvOrDefault(env)
    /\ pc' = "cred"
    /\ UNCHANGED <<env, handles, pk, trace, readResp, pager, fetched, exitCode>>

(* main, lines 38-41 *)
NewKeyCredential ==
    /\ pc = "cred"
    /\ \E ok \in BOOLEAN :
          IF ok THEN /\ handles' = [handles EXCEPT !.cred = "ok"]
                     /\ pc' = "client"
                     /\ UNCHANGED <<trace, exitCode>>
                ELSE /\ handles' = [handles EXCEPT !.cred = "err"]
                     /\ Fatalf(MsgCred, <<>>)
    /\ UNCHANGED <<env, partitionKeyString, pk, readResp, pager, fetched>>

(* main, lines 42-45 *)
NewClientWithKey ==
    /\ pc = "client"
    /\ \E ok \in BOOLEAN :
          IF ok THEN /\ handles' = [handles EXCEPT !.client = "ok"]
                     /\ pc' = "container"
                     /\ UNCHANGED <<trace, exitCode>>
                ELSE /\ handles' = [handles EXCEPT !.client = "err"]
                     /\ Fatalf(MsgClient, <<>>)
    /\ UNCHANGED <<env, partitionKeyString, pk, readResp, pager, fetched>>

(* main, lines 48-52 *)
NewContainerIgnoreErr ==
    /\ pc = "container"
    /\ \E ok \in BOOLEAN :
          /\ handles' = [handles EXCEPT !.container = IF ok THEN "ok" ELSE "err"]
          /\ pk' = NewPartitionKeyString(partitionKeyString)
          /\ pc' = "time_read"
          /\ UNCHANGED <<trace, exitCode>>
    /\ UNCHANGED <<env, partitionKeyString, readResp, pager, fetched>>

NewContainer ==
    /\ pc = "container"
    /\ \E ok \in BOOLEAN :
          IF ok THEN /\ handles' = [handles EXCEPT !.container = "ok"]
                     /\ pk' = NewPartitionKeyString(partitionKeyString)
                     /\ pc' = "time_read"
                     /\ UNCHANGED <<trace, exitCode>>
                ELSE /\ handles' = [handles EXCEPT !.container = "err"]
                     /\ Fatalf(MsgContainer, <<>>)
                     /\ UNCHANGED pk
    /\ UNCHANGED <<env, partitionKeyString, readResp, pager, fetched>>

(* timeFuncExecution, lines 59-60: note the start time and invoke f.  The  *)
(* clock's readings are not part of the state: the duration line is        *)
(* recorded, the duration it prints is not.                                *)
timeFuncExecutionStart(at, f) ==
    /\ pc = at
    /\ trace' = Append(trace, Begin(f))
    /\ pc' = f
    /\ UNCHANGED <<env, partitionKeyString, handles, pk, readResp, pager, fetched, exitCode>>

(* timeFuncExecution, lines 61-62: f has returned; log the elapsed time *)
timeFuncExecutionEndSilent(at, next) ==
    /\ pc = at
    /\ pc' = next
    /\ UNCHANGED <<env, partitionKeyString, handles, pk, trace, readResp, pager, fetched, exitCode>>

timeFuncExecutionEnd(at, next) ==
    /\ pc = at
    /\ trace' = Append(trace, Out(MsgTook, "", 0))
    /\ pc' = next
    /\ UNCHANGED <<env, partitionKeyString, handles, pk, readResp, pager, fetched, exitCode>>

TimeReadStart == timeFuncExecutionStart("time_read", "readItem")
TimeReadEnd == timeFuncExecutionEnd("readItem_returned", "time_query")
TimeQueryStart == timeFuncExecutionStart("time_query", "queryItem")
TimeQueryEnd == timeFuncExecutionEnd("queryItem_returned", "main_return")

(* What readItem writes for a result of ReadItem, lines 70-83 *)
readItemLines(resp) ==
    IF resp.err THEN <<Out(MsgRead, "", 0)>>
    ELSE IF resp.status = StatusOK
         THEN IF Unmarshal(resp.value).err
              THEN <<Out(MsgUnmarshal, "", 0)>>
              ELSE <<Out(LineRead, Unmarshal(resp.value).ID, 0)>>
         ELSE <<>>

(* readItem, lines 65-84 *)
readItemFatal ==
    /\ pc = "readItem"
    /\ \E resp \in ReadResponses :
                /\ readResp' = resp
          /\ IF resp.err
             THEN Fatalf(MsgRead, <<Call("ReadItem", TargetId, pk, <<>>, <<>>, 0)>>)
             ELSE /\ trace' = trace \o <<Call("ReadItem", TargetId, pk, <<>>, <<>>, 0)>>
                                 \o readItemLines(resp) \o <<Return("readItem")>>
                  /\ pc' = "readItem_returned"
                  /\ UNCHANGED exitCode
    /\ UNCHANGED <<env, partitionKeyString, handles, pk, pager, fetched>>

readItemRetry ==
    /\ pc = "readItem"
    /\ \E resp \in ReadResponses :
                /\ readResp' = resp
          /\ IF resp.err /\ ~readResp.called
             THEN /\ trace' = Append(trace, Call("ReadItem", TargetId, pk, <<>>, <<>>, 0))
                  /\ pc' = "readItem"
             ELSE /\ trace' = trace \o <<Call("ReadItem", TargetId, pk, <<>>, <<>>, 0)>>
                                 \o readItemLines(resp) \o <<Return("readItem")>>
                  /\ pc' = "readItem_returned"
    /\ UNCHANGED <<env, partitionKeyString, handles, pk, pager, fetched, exitCode>>

readItem ==
    /\ pc = "readItem"
    /\ \E resp \in ReadResponses :
                /\ readResp' = resp
          /\ trace' = trace \o <<Call("ReadItem", TargetId, pk, <<>>, <<>>, 0)>>
                         \o readItemLines(resp) \o <<Return("readItem")>>
    /\ pc' = "readItem_returned"
    /\ UNCHANGED <<env, partitionKeyString, handles, pk, pager, fetched, exitCode>>

(* queryItem, lines 88-94: build the parameters and create the pager.     *)
(* A new pager has fetched nothing, and its More() is true.               *)
NewQueryItemsPager ==
    /\ pc = "queryItem"
    /\ trace' = Append(trace, Call("NewQueryItemsPager", TargetId, pk, query, queryParams(TargetId), 0))
    /\ pager' = [created |-> TRUE, more |-> TRUE]
    /\ pc' = "loop"
    /\ UNCHANGED <<env, partitionKeyString, handles, pk, readResp, fetched, exitCode>>

(* queryItem, lines 101-109: the lines written for one page, and whether  *)
(* an item failed to unmarshal (which returns from queryItem)             *)
RECURSIVE rangeItemsSkip(_)
rangeItemsSkip(items) ==
    IF items = <<>> THEN [lines |-> <<>>, failed |-> FALSE]
    ELSE LET u == Unmarshal(Head(items))
             r == rangeItemsSkip(Tail(items))
         IN  IF u.err
             THEN [lines |-> <<Out(MsgUnmarshal, "", 0)>> \o r.lines, failed |-> r.failed]
             ELSE [lines |-> <<Out(LineQuery, u.ID, 0)>> \o r.lines, failed |-> r.failed]

RECURSIVE rangeItems(_)
rangeItems(items) ==
    IF items = <<>> THEN [lines |-> <<>>, failed |-> FALSE]
    ELSE LET u == Unmarshal(Head(items))
         IN  IF u.err
             THEN [lines |-> <<Out(MsgUnmarshal, "", 0)>>, failed |-> TRUE]
             ELSE LET r == rangeItems(Tail(items))
                  IN  [lines |-> <<Out(LineQuery, u.ID, 0)>> \o r.lines, failed |-> r.failed]

(* queryItem, lines 98-100: NextPage returned an error *)
NextPageFailedContinue ==
    /\ trace' = trace \o <<Call("NextPage", "", <<>>, <<>>, <<>>, Len(fetched) + 1),
                           Out(MsgQuery, "", 0)>>
    /\ fetched' = Append(fetched, [items |-> <<>>, more |-> TRUE])
    /\ pager' = [pager EXCEPT !.more = Len(fetched) + 1 < MaxPages]
    /\ pc' = "loop"
    /\ UNCHANGED exitCode

NextPageFailedReturn ==
    /\ trace' = trace \o <<Call("NextPage", "", <<>>, <<>>, <<>>, Len(fetched) + 1),
                           Out(MsgQuery, "", 0), Return("queryItem")>>
    /\ pc' = "queryItem_returned"
    /\ UNCHANGED <<pager, fetched, exitCode>>

NextPageFailed ==
    /\ Fatalf(MsgQuery, <<Call("NextPage", "", <<>>, <<>>, <<>>, Len(fetched) + 1)>>)
    /\ UNCHANGED <<pager, fetched>>

(* queryItem, lines 101-110: NextPage returned page r *)
NextPageOkOnce(r) ==
    /\ fetched' = Append(fetched, [items |-> r.items, more |-> r.more])
    /\ pager' = [pager EXCEPT !.more = r.more]
    /\ trace' = trace \o <<Call("NextPage", "", <<>>, <<>>, <<>>, Len(fetched) + 1)>>
                   \o rangeItems(r.items).lines \o <<Return("queryItem")>>
    /\ pc' = "queryItem_returned"
    /\ UNCHANGED exitCode

NextPageOk(r) ==
    /\ fetched' = Append(fetched, [items |-> r.items, more |-> r.more])
    /\ pager' = [pager EXCEPT !.more = r.more]
    /\ LET p == rangeItems(r.items)
           c == Call("NextPage", "", <<>>, <<>>, <<>>, Len(fetched) + 1)
       IN  IF p.failed
           THEN /\ trace' = trace \o <<c>> \o p.lines \o <<Return("queryItem")>>
                /\ pc' = "queryItem_returned"
           ELSE /\ trace' = trace \o <<c>> \o p.lines
                /\ pc' = "loop"
    /\ UNCHANGED exitCode

(* queryItem, lines 96-110: one iteration of for pager.More().  The pager *)
(* serves at most MaxPages pages.                                          *)
LoopIter ==
    /\ pc = "loop"
    /\ pager.more
    /\ \E r \in PageResponses :
          /\ (~r.err /\ Len(fetched) + 1 >= MaxPages) => ~r.more
          /\ IF r.err THEN NextPageFailed ELSE NextPageOk(r)
    /\ UNCHANGED <<env, partitionKeyString, handles, pk, readResp>>

(* queryItem, lines 96 and 111: pager.More() is false *)
LoopExit ==
    /\ pc = "loop"
    /\ ~pager.more
    /\ trace' = Append(trace, Return("queryItem"))
    /\ pc' = "queryItem_returned"
    /\ UNCHANGED <<env, partitionKeyString, handles, pk, readResp, pager, fetched, exitCode>>

(* main, line 56: main returns and the process exits with status 0 *)
MainReturn ==
    /\ pc = "main_return"
    /\ exitCode' = 0
    /\ pc' = "exited"
    /\ UNCHANGED <<env, partitionKeyString, handles, pk, trace, readResp, pager, fetched>>

Next ==
    \/ LookupEnv
    \/ NewKeyCredential
    \/ NewClientWithKey
    \/ NewContainer
    \/ TimeReadStart
    \/ readItem
    \/ TimeReadEnd
    \/ TimeQueryStart
    \/ NewQueryItemsPager
    \/ LoopIter
    \/ LoopExit
    \/ TimeQueryEnd
    \/ MainReturn

Spec == Init /\ [][Next]_vars

(* Every store call returns and the single thread keeps running *)
FairSpec == Spec /\ WF_vars(Next)

TypeOK ==
    /\ pc \in {"main", "cred", "client", "container", "time_read", "readItem",
               "readItem_returned", "time_query", "queryItem", "loop",
               "queryItem_returned", "main_return", "exited"}
    /\ exitCode \in {NotExited, 0, 1}
    /\ Len(fetched) <= MaxPages

(***************************************************************************)
(* Reading the trace                                                       *)
(***************************************************************************)
At(t, name) == {i \in DOMAIN trace : trace[i].t = t /\ trace[i].name = name}
Count(t, name) == Cardinality(At(t, name))
Has(t, name) == At(t, name) # {}
IsTook(i) == i \in DOMAIN trace /\ trace[i].t = "out" /\ trace[i].name = MsgTook
Terminated == pc = "exited"

(* The ids written by queryItem, in the order written *)
ReportedIds ==
    LET lines == SelectSeq(trace, LAMBDA e : e.t = "out" /\ e.name = LineQuery)
    IN  [i \in DOMAIN lines |-> lines[i].id]

(* The items of the fetched pages, in page order and item order *)
RECURSIVE Flatten(_)
Flatten(ps) == IF ps = <<>> THEN <<>> ELSE Head(ps).items \o Flatten(Tail(ps))

IdsOf(items) == [i \in DOMAIN items |-> Unmarshal(items[i]).ID]
BadAt(items) == {i \in DOMAIN items : Unmarshal(items[i]).err}
Min(S) == CHOOSE x \in S : \A y \in S : x <= y

(* The point read failed: ReadItem returned an error, or json.Unmarshal   *)
(* rejected the payload of a 200 response                                  *)
ReadFailed ==
    /\ readResp.called
    /\ \/ readResp.err
       \/ readResp.status = StatusOK /\ readResp.value.kind = "malformed"

(* C1: whenever the point read has failed (ReadItem error or payload that *)
(* does not deserialize), readItem wrote its failure message and no        *)
(* [READ] line and returned; the process did not exit before the timer     *)
(* logged the duration and the query was created; and a run that ends      *)
(* after queryItem returned ends with exit code 0.                         *)
C1_ReadFailureSwallowed ==
    ReadFailed =>
        /\ Count("call", "ReadItem") = 1
        /\ LET c == CHOOSE i \in At("call", "ReadItem") : TRUE
           IN  /\ c + 2 <= Len(trace)
               /\ trace[c + 1].t = "out"
               /\ trace[c + 1].name = (IF readResp.err THEN "Failed to read item"
                                                       ELSE "Failed to unmarshal item")
               /\ trace[c + 2] = Return("readItem")
               /\ pc # "readItem_returned" => IsTook(c + 3)
        /\ ~Has("out", LineRead)
        /\ Terminated => Has("call", "NewQueryItemsPager")
        /\ exitCode = 1 => Has("out", MsgQuery)
        /\ (Terminated /\ Has("return", "queryItem")) => exitCode = 0

C1_Witness ==
    /\ ReadFailed
    /\ ~readResp.err
    /\ Terminated
    /\ exitCode = 0

PageFetchFailed == Has("out", MsgQuery)

(* C2: when the fetch of page k has failed, the process has exited with   *)
(* status 1, the failure message is the last thing it did, exactly the     *)
(* pages 1..k-1 were fetched and exactly their items' ids were reported.   *)
C2_PageFailureFatal ==
    PageFetchFailed =>
        /\ Terminated
        /\ exitCode = 1
        /\ trace[Len(trace)] = Out(MsgQuery, "", 0)
        /\ Len(trace) >= 2
        /\ trace[Len(trace) - 1] = Call("NextPage", "", <<>>, <<>>, <<>>, Len(fetched) + 1)
        /\ Count("call", "NextPage") = Len(fetched) + 1
        /\ ReportedIds = IdsOf(Flatten(fetched))

C2_Witness ==
    /\ PageFetchFailed
    /\ Len(fetched) = 1
    /\ Len(fetched[1].items) >= 1
    /\ Terminated

QueryAllOk == ~PageFetchFailed /\ BadAt(Flatten(fetched)) = {}

C3_Inv ==
    /\ \A p \in DOMAIN fetched : p < Len(fetched) => fetched[p].more
    /\ QueryAllOk =>
          /\ ReportedIds = IdsOf(Flatten(fetched))
          /\ Count("call", "NextPage") = Len(fetched)
          /\ Has("return", "queryItem") => (pager.created /\ ~pager.more)
          /\ (pc = "loop" /\ ~pager.more) => ENABLED LoopExit

(* C3: with no page error and no item that fails to deserialize, the ids  *)
(* reported are those of all items of all fetched pages, in page and item  *)
(* order; a page is fetched only while the pager reported more, queryItem  *)
(* returns only when the pager reports no more, and every run ends.        *)
C3_QueryReportsAll == []C3_Inv /\ <>Terminated

C3_Witness ==
    /\ QueryAllOk
    /\ Has("return", "queryItem")
    /\ Len(fetched) = 2
    /\ ReportedIds = <<"bar", "baz">>

ConfiguredKey == IF env.set THEN env.value ELSE "cosmos/default"

(* C4: ReadItem and NewQueryItemsPager are both called with the partition *)
(* key made of the environment value when the variable is set (also when   *)
(* it is empty) and of "cosmos/default" when it is unset.                  *)
C4_PartitionKey ==
    \A i \in At("call", "ReadItem") \cup At("call", "NewQueryItemsPager") :
        trace[i].pk = <<ConfiguredKey>>

C4_Witness ==
    /\ ~env.set
    /\ Has("call", "ReadItem")
    /\ Has("call", "NewQueryItemsPager")

C4_WitnessEmpty ==
    /\ env.set
    /\ env.value = ""
    /\ Has("call", "NewQueryItemsPager")

ConstructionFailed == \E h \in DOMAIN handles : handles[h] = "err"
AnyCall == \E i \in DOMAIN trace : trace[i].t = "call"

(* C5: once a construction has failed the process has exited with status  *)
(* 1 having made no store call and logged no duration; and a store call    *)
(* is made only with credential, client and container all constructed.     *)
C5_ConstructionFatal ==
    /\ ConstructionFailed =>
          /\ Terminated
          /\ exitCode = 1
          /\ ~AnyCall
          /\ ~Has("out", MsgTook)
          /\ ~Has("begin", "readItem")
    /\ AnyCall => \A h \in DOMAIN handles : handles[h] = "ok"

C5_Witness ==
    /\ handles.container = "err"
    /\ Terminated

ReadEvent(e) ==
    \/ e.t = "call" /\ e.name = "ReadItem"
    \/ e.t = "out" /\ e.name \in {LineRead, MsgRead}
QueryEvent(e) ==
    \/ e.t = "call" /\ e.name \in {"NewQueryItemsPager", "NextPage"}
    \/ e.t = "out" /\ e.name \in {LineQuery, MsgQuery}

QueryItemBad == BadAt(Flatten(fetched)) # {}

(* C7: when a fetched item fails to deserialize, the ids reported are     *)
(* those of the items before it, the failure message and the return of     *)
(* queryItem follow directly, the failing item is in the last page         *)
(* fetched, the process has not exited with an error, the timer logs the   *)
(* duration and the run ends with exit code 0.                             *)
C7_UnmarshalFailureStops ==
    QueryItemBad =>
        LET all == Flatten(fetched)
            b == Min(BadAt(all))
            last == fetched[Len(fetched)].items
        IN  /\ ReportedIds = IdsOf(SubSeq(all, 1, b - 1))
            /\ BadAt(last) # {}
            /\ b = Len(all) - Len(last) + Min(BadAt(last))
            /\ Count("call", "NextPage") = Len(fetched)
            /\ \E j \in DOMAIN trace :
                  /\ trace[j] = Out("Failed to unmarshal item", "", 0)
                  /\ j < Len(trace)
                  /\ trace[j + 1] = Return("queryItem")
                  /\ pc # "queryItem_returned" => IsTook(j + 2)
                  /\ \A i \in DOMAIN trace : i > j => ~QueryEvent(trace[i])
            /\ ~PageFetchFailed
            /\ exitCode # 1
            /\ Terminated => exitCode = 0

C7_Witness ==
    /\ QueryItemBad
    /\ Len(fetched) = 2
    /\ Len(ReportedIds) = 2
    /\ Len(fetched[2].items) = 2
    /\ Terminated

NextPageCalls == SelectSeq(trace, LAMBDA e : e.t = "call" /\ e.name = "NextPage")

(* C8: ReadItem is called at most once, the pager is created at most      *)
(* once, and the NextPage calls fetch the pages 1, 2, ... once each, none  *)
(* following a failed fetch.                                               *)
C8_NoRetry ==
    /\ Count("call", "ReadItem") <= 1
    /\ Count("call", "NewQueryItemsPager") <= 1
    /\ \A i \in DOMAIN NextPageCalls : NextPageCalls[i].n = i
    /\ Len(NextPageCalls) <= Len(fetched) + 1
    /\ Len(NextPageCalls) = Len(fetched) + 1 => PageFetchFailed
    /\ \A i \in At("out", MsgRead) \cup At("out", MsgUnmarshal) :
          \A j \in DOMAIN trace : j > i => ~(trace[j].t = "call" /\ trace[j].name = "ReadItem")
    /\ \A i \in At("out", MsgQuery) :
          \A j \in DOMAIN trace : j > i => trace[j].t # "call"

C8_Witness ==
    /\ readResp.err
    /\ PageFetchFailed
    /\ Len(fetched) = 1

ParamValue(ps, name) == (CHOOSE i \in DOMAIN ps : ps[i].Name = name)
EffectiveFilter(q, ps) ==
    {[field |-> q[i].field, value |-> ps[ParamValue(ps, q[i].param)].Value] : i \in DOMAIN q}

(* C9: the query is created with the filter id = "bar" (the target id)    *)
(* and store_id = "cosmos/default", whatever partition key routes it.      *)
C9_FixedFilter ==
    \A i \in At("call", "NewQueryItemsPager") :
        /\ trace[i].id = TargetId
        /\ \A c \in DOMAIN trace[i].query :
              \E k \in DOMAIN trace[i].params : trace[i].params[k].Name = trace[i].query[c].param
        /\ EffectiveFilter(trace[i].query, trace[i].params)
              = {[field |-> "id", value |-> trace[i].id],
                 [field |-> "store_id", value |-> "cosmos/default"]}
        /\ trace[i].pk = <<ConfiguredKey>>

C9_Witness ==
    /\ env.set
    /\ env.value = "tenant/a"
    /\ Has("call", "NewQueryItemsPager")
    /\ partitionKeyString = "tenant/a"

Returns == Count("return", "readItem") + Count("return", "queryItem")

(* C10: a failed page fetch is never followed by a duration line; and a   *)
(* finished run logged as many durations as wrapped functions returned:    *)
(* 2 with exit code 0, 1 after a failed page fetch, 0 after a failed       *)
(* construction.                                                           *)
C10_DurationCount ==
    /\ Count("out", MsgTook) <= Returns
    /\ Returns <= Count("out", MsgTook) + 1
    /\ PageFetchFailed =>
          /\ \A i \in At("out", MsgQuery) : \A j \in DOMAIN trace : j > i => ~IsTook(j)
          /\ \A b \in At("begin", "queryItem") : \A j \in DOMAIN trace : j > b => ~IsTook(j)
    /\ Terminated =>
          /\ Count("out", MsgTook) = Returns
          /\ exitCode = 0 => Count("out", MsgTook) = 2
          /\ PageFetchFailed => Count("out", MsgTook) = 1
          /\ ConstructionFailed => Count("out", MsgTook) = 0

C10_Witness ==
    /\ PageFetchFailed
    /\ Terminated
    /\ Count("out", MsgTook) = 1
    /\ Len(fetched) = 1

=============================================================================
